---- MODULE Spec2Model ----
(***************************************************************************)
(* The script execution sandbox of gooser: ScriptInjector (validation,     *)
(* execution raced against a timeout and an abort signal, automatic        *)
(* execution on load) and the ConsoleManager sink it reports to.           *)
(*                                                                         *)
(* JavaScript runs every task to completion on one event loop, so one      *)
(* action of the model is one synchronous stretch of code: a call up to    *)
(* its first await, the continuation after an await, a timer task, a       *)
(* host callback.  An evaluation that never returns freezes that one event *)
(* loop, so no further step is taken: that behaviour is the model          *)
(* stuttering forever.                                                     *)
(***************************************************************************)
EXTENDS Integers, Sequences, FiniteSets, TLC

\* ---------------------------------------------------------------- bounds
MaxCalls == 2     \* calls made to the injector from outside in one behaviour
MaxClock == 1     \* clock ticks (the granularity of Date.now()) observed
MaxBatches == 1   \* executeOnLoad calls in one behaviour
MaxConsoleCalls == 4  \* calls made to the ConsoleManager from outside in one behaviour
Timeout == 1      \* options.timeout, in clock ticks

\* ------------------------------------------------------ program constants
DEFAULT_MAX_MEMORY == 50
DEFAULT_MAX_HISTORY == 1000
RECENT_ERRORS == 10

\* ------------------------------------------------------------ identifiers
NoId == [kind |-> "none", n |-> 0]                 \* snippetId === undefined
SnippetId(k) == [kind |-> "snippet", n |-> k]
GeneratedId(t) == [kind |-> "exec", n |-> t]       \* `exec_${Date.now()}`
SnippetIds == {SnippetId(1), SnippetId(2), SnippetId(3)}
ExecIds == SnippetIds \cup {GeneratedId(t) : t \in 0..MaxClock}

\* --------------------------------------------------------------- snippets
\* A snippet's source text, by what validateCode and the evaluation read of
\* it: whether it is blank, whether it parses as a function body, and which
\* of the dangerousPatterns occur in it.
dangerousPatterns ==
  << "while(true)", "for(;;)", "setInterval", "setTimeout0", "eval",
     "Function", "document.write" >>

CodeEmpty == [blank |-> TRUE, parses |-> TRUE, dangerous |-> {}, logs |-> <<>>]
CodeSyntaxError == [blank |-> FALSE, parses |-> FALSE, dangerous |-> {"eval"}, logs |-> <<>>]
CodePlain == [blank |-> FALSE, parses |-> TRUE, dangerous |-> {}, logs |-> <<>>]
CodeRisky == [blank |-> FALSE, parses |-> TRUE, dangerous |-> {"while(true)", "eval"}, logs |-> <<>>]
\* console.log("hi"): the console methods the code calls, in order
CodeLogs == [blank |-> FALSE, parses |-> TRUE, dangerous |-> {}, logs |-> <<"log">>]
Codes == {CodeEmpty, CodeSyntaxError, CodePlain, CodeRisky}

\* (a validator that lets every code through)
validateCodeAcceptAll(code) ==
  [isValid |-> TRUE, errors |-> <<>>,
   warnings |-> SelectSeq(dangerousPatterns, LAMBDA w : w \in code.dangerous)]

\* validateCode(code)
validateCode(code) ==
  IF code.blank
    THEN [isValid |-> FALSE, errors |-> <<"Code is empty">>, warnings |-> <<>>]
    ELSE LET warnings == SelectSeq(dangerousPatterns, LAMBDA w : w \in code.dangerous)
             errors == IF code.parses THEN <<>> ELSE <<"Syntax error">>
         IN  [isValid |-> Len(errors) = 0, errors |-> errors, warnings |-> warnings]

\* ---------------------------------------------------------------- strings
\* A string is the sequence of its characters.
UpperCase ==
  << "A", "B", "C", "D", "E", "F", "G", "H", "I", "J", "K", "L", "M",
     "N", "O", "P", "Q", "R", "S", "T", "U", "V", "W", "X", "Y", "Z" >>
LowerCase ==
  << "a", "b", "c", "d", "e", "f", "g", "h", "i", "j", "k", "l", "m",
     "n", "o", "p", "q", "r", "s", "t", "u", "v", "w", "x", "y", "z" >>
LowerOf ==
  [c \in {UpperCase[k] : k \in 1..Len(UpperCase)} |->
     LowerCase[CHOOSE k \in 1..Len(UpperCase) : UpperCase[k] = c]]
lowerChar(c) == IF c \in DOMAIN LowerOf THEN LowerOf[c] ELSE c
toLowerCase(s) == [i \in 1..Len(s) |-> lowerChar(s[i])]
startsWith(s, p) == Len(p) <= Len(s) /\ SubSeq(s, 1, Len(p)) = p
includes(s, p) == \E i \in 0..(Len(s) - Len(p)) : SubSeq(s, i + 1, i + Len(p)) = p
slice(s, n) == SubSeq(s, n + 1, Len(s))

\* s.replace(/^https?:\/\/(www\.)?/, '')
stripProtocol(s) ==
  LET http == <<"h", "t", "t", "p", ":", "/", "/">>
      https == <<"h", "t", "t", "p", "s", ":", "/", "/">>
      www == <<"w", "w", "w", ".">>
      matched == startsWith(s, http) \/ startsWith(s, https)
      rest == IF startsWith(s, http) THEN slice(s, Len(http))
              ELSE IF startsWith(s, https) THEN slice(s, Len(https))
              ELSE s
  IN  IF matched /\ startsWith(rest, www) THEN slice(rest, Len(www)) ELSE rest

\* new RegExp(pattern, 'i'), for patterns written with literal characters
\* and the metacharacters ^ $ . * \ [ ]: the sequence of its atoms, or the
\* SyntaxError of a pattern that does not compile (nothing to repeat, an
\* unterminated character class, a \ at the end of the pattern).
RegExpSyntaxError == [ok |-> FALSE, atoms |-> <<>>]
Atom(kind, chars) == [kind |-> kind, chars |-> chars, star |-> FALSE]

RECURSIVE classEnd(_, _)
classEnd(p, i) ==
  IF i > Len(p) THEN 0 ELSE IF p[i] = "]" THEN i ELSE classEnd(p, i + 1)

RECURSIVE parseRegExp(_, _)
parseRegExp(p, i) ==
  IF i > Len(p) THEN [ok |-> TRUE, atoms |-> <<>>]
  ELSE
    LET starAt(j) == j <= Len(p) /\ p[j] = "*"
        then(atom, next) ==
          LET rest == parseRegExp(p, IF starAt(next) THEN next + 1 ELSE next)
          IN  IF rest.ok
                THEN [ok |-> TRUE,
                      atoms |-> <<[atom EXCEPT !.star = starAt(next)]>> \o rest.atoms]
                ELSE RegExpSyntaxError
        assertion(kind) ==
          IF starAt(i + 1) THEN RegExpSyntaxError ELSE then(Atom(kind, {}), i + 1)
        close == classEnd(p, i + 1)
    IN  CASE p[i] = "*" -> RegExpSyntaxError
          [] p[i] = "^" -> assertion("bol")
          [] p[i] = "$" -> assertion("eol")
          [] p[i] = "." -> then(Atom("any", {}), i + 1)
          [] p[i] = "\\" ->
               IF i = Len(p) THEN RegExpSyntaxError
               ELSE then(Atom("set", {lowerChar(p[i + 1])}), i + 2)
          [] p[i] = "[" ->
               IF close = 0 THEN RegExpSyntaxError
               ELSE then(Atom("set", {lowerChar(p[k]) : k \in (i + 1)..(close - 1)}),
                         close + 1)
          [] OTHER -> then(Atom("set", {lowerChar(p[i])}), i + 1)

RegExp(pattern) == parseRegExp(pattern, 1)

RECURSIVE matchHere(_, _, _, _)
matchHere(atoms, k, u, j) ==
  IF k > Len(atoms) THEN TRUE
  ELSE
    LET a == atoms[k]
        fits == j <= Len(u) /\ (a.kind = "any" \/ lowerChar(u[j]) \in a.chars)
    IN  CASE a.kind = "bol" -> j = 1 /\ matchHere(atoms, k + 1, u, j)
          [] a.kind = "eol" -> j = Len(u) + 1 /\ matchHere(atoms, k + 1, u, j)
          [] a.star -> matchHere(atoms, k + 1, u, j)
                         \/ (fits /\ matchHere(atoms, k, u, j + 1))
          [] OTHER -> fits /\ matchHere(atoms, k + 1, u, j + 1)

\* regex.test(url)
test(regex, url) == \E j \in 1..(Len(url) + 1) : matchHere(regex.atoms, 1, url, j)

\* How a block of code ends: it returns a value or it throws.
Returns(value) == [threw |-> FALSE, value |-> value]
Throws == [threw |-> TRUE, value |-> FALSE]

\* the pattern is handed to new RegExp
looksLikeRegExp(pattern) ==
  \E i \in 1..Len(pattern) : pattern[i] \in {"\\", "^", "$", "[", "]"}

\* the try block of matchesUrlPattern
tryMatch(url, pattern) ==
  IF pattern = <<>> \/ pattern = <<".", "*">> \/ pattern = <<"*">> THEN Returns(TRUE)
  ELSE
    LET cleanUrl == toLowerCase(stripProtocol(url))
        cleanPattern == toLowerCase(stripProtocol(pattern))
        regex == RegExp(pattern)
    IN  IF looksLikeRegExp(pattern)
          THEN IF regex.ok THEN Returns(test(regex, url)) ELSE Throws
        ELSE IF startsWith(cleanPattern, <<"*", ".">>)
          THEN Returns(includes(cleanUrl, slice(cleanPattern, 2)))
        ELSE Returns(includes(cleanUrl, cleanPattern))

\* (a matcher without its catch block)
rethrowMatchError(attempt) == attempt

\* the catch block of matchesUrlPattern: the error is written to the host
\* console and false is returned
catchMatchError(attempt) == IF attempt.threw THEN Returns(FALSE) ELSE attempt

\* how a call matchesUrlPattern(url, pattern) ends
callMatchesUrlPattern(url, pattern) == catchMatchError(tryMatch(url, pattern))

\* matchesUrlPattern(url, pattern), where it is used as a condition
matchesUrlPattern(url, pattern) == callMatchesUrlPattern(url, pattern).value

\* ----------------------------------------------------------------- errors
\* An Error value, by what the sandbox and the sink read of it: its
\* classification (which message it carries), the rules of the suggestion
\* table its message matches, and whether a line:column can be read off it.
NoError == [kind |-> "none", rules |-> {}, hasStack |-> FALSE, hasLine |-> FALSE]
CrossOriginError ==
  [kind |-> "crossOrigin", rules |-> {}, hasStack |-> TRUE, hasLine |-> TRUE]
ValidationError(v) ==
  [kind |-> "validation",
   rules |-> IF v.errors = <<"Syntax error">> THEN {1} ELSE {},
   hasStack |-> TRUE, hasLine |-> TRUE]
TimeoutError == [kind |-> "timeout", rules |-> {12}, hasStack |-> TRUE, hasLine |-> TRUE]
AbortError == [kind |-> "abort", rules |-> {}, hasStack |-> TRUE, hasLine |-> TRUE]
\* what a snippet may throw: new Error("boom"), and a value without a stack
\* whose text reads as a null dereference of a querySelector result (rules 4
\* and 7 of the suggestion table)
ThrownErrors ==
  { [kind |-> "runtime", rules |-> {}, hasStack |-> TRUE, hasLine |-> TRUE],
    [kind |-> "runtime", rules |-> {4, 7}, hasStack |-> FALSE, hasLine |-> FALSE] }

ZeroUsage == [memoryUsage |-> 0, executionTime |-> 0, domModifications |-> 0]

\* The outcomes of frameWindow.eval(wrappedCode): it returns a value, it
\* throws, or it hands back a thenable that completes later or never.
EvalOutcomes ==
  { [how |-> "returns", error |-> NoError],
    [how |-> "pending", error |-> NoError] }
  \cup { [how |-> "throws", error |-> e] : e \in ThrownErrors }

FrameIds == {1, 2}

\* performance.memory readings, as the delta to the monitor's baseline (MB)
MemoryReadings == {0, 60}

VARIABLES
  runs,              \* one record per call of injectScript, in call order
  activeExecutions,  \* Map<string, AbortController>: id -> the run owning the controller, 0 = no entry
  resourceMonitors,  \* Map<string, ResourceMonitor>: id -> the run owning the monitor, 0 = no entry
  options,           \* ScriptInjectorOptions
  frames,            \* the iframes handed to the injector
  batches,           \* one record per call of executeOnLoad
  clock,             \* Date.now() / performance.now(), in ticks
  messageHistory,    \* ConsoleManager.messageHistory
  errorHistory,      \* ConsoleManager.errorHistory
  maxHistorySize,    \* ConsoleManager.maxHistorySize
  outputCallback,    \* ConsoleManager.outputCallback: the listener registered, 0 for none
  delivered,         \* the calls the listeners have received, in order
  journal,           \* what has been handed to the ConsoleManager to record
  consoleCalls,      \* the calls made to the ConsoleManager from outside: how many, the last one, what it returned
  calls              \* the calls made to the injector from outside: how many, the last one, what it returned

injectorVars == <<runs, activeExecutions, resourceMonitors, options>>
consoleVars ==
  <<messageHistory, errorHistory, maxHistorySize, outputCallback, delivered,
    journal, consoleCalls>>
vars == <<runs, activeExecutions, resourceMonitors, options, frames, batches,
          clock, messageHistory, errorHistory, maxHistorySize, outputCallback,
          delivered, journal, consoleCalls, calls>>

\* ------------------------------------------------------ ConsoleManager
Max(a, b) == IF a >= b THEN a ELSE b
Min(a, b) == IF a <= b THEN a ELSE b

\* (the first n entries instead of the last n)
sliceFromStart(s, n) == SubSeq(s, 1, Min(n, Len(s)))

\* Array.prototype.slice(-n)
sliceFromEnd(s, n) ==
  LET start == IF n > 0 THEN Max(Len(s) - n, 0) ELSE Min(0 - n, Len(s))
  IN  SubSeq(s, start + 1, Len(s))

\* A ConsoleMessage; its text is kept as what it reports (text), with the
\* error classification or the suggestion rule it was formatted from.
ConsoleMessage(type, text, kind, rule, snippetId) ==
  [type |-> type, text |-> text, kind |-> kind, rule |-> rule,
   source |-> "snippet", snippetId |-> snippetId]

\* messageHistory after addMessage(message)
addMessage(history, message) ==
  LET pushed == Append(history, message)
  IN  IF Len(pushed) > maxHistorySize
        THEN sliceFromEnd(pushed, maxHistorySize)
        ELSE pushed

RECURSIVE addMessages(_, _)
addMessages(history, messages) ==
  IF messages = <<>> THEN history
  ELSE addMessages(addMessage(history, Head(messages)), Tail(messages))

\* A call of the listener: which one, with what message, and whether that
\* message was the newest entry of the history when the call was made.
Delivery(callback, message, history) ==
  [listener |-> callback, message |-> message,
   stored |-> history # <<>> /\ history[Len(history)] = message]

\* (an addMessage that calls no listener)
notifyNobody(received, callback, message, history) == received

\* the end of addMessage: if (this.outputCallback) this.outputCallback(message)
notifyCallback(received, callback, message, history) ==
  IF callback # 0 THEN Append(received, Delivery(callback, message, history))
  ELSE received

\* the listeners' calls after addMessage of each of the messages in turn
RECURSIVE deliveredAfter(_, _, _)
deliveredAfter(received, history, messages) ==
  IF messages = <<>> THEN received
  ELSE LET trimmed == addMessage(history, Head(messages))
       IN  deliveredAfter(notifyCallback(received, outputCallback, Head(messages), trimmed),
                          trimmed, Tail(messages))

\* The journal keeps what the ConsoleManager was given: the messages and
\* the error logs on top of what the last clearing operation left, the
\* listener last handed to setOutputCallback (0 for none), and every message
\* ever added with the listener registered at that time.
journalAfter(j, errorLogs, messages) ==
  [messages |-> j.messages \o messages,
   errors |-> j.errors \o errorLogs,
   registered |-> j.registered,
   added |-> j.added \o [k \in 1..Len(messages) |->
                           [listener |-> j.registered, message |-> messages[k]]]]

NoJournal == [messages |-> <<>>, errors |-> <<>>, registered |-> 0, added |-> <<>>]
NoConsoleCalls == [n |-> 0, op |-> "none", arg |-> <<>>, returned |-> <<>>]

\* what the listeners and the journal see of logDetailedError / addMessage calls
Observed(errorLogs, messages) ==
  /\ delivered' = deliveredAfter(delivered, messageHistory, messages)
  /\ journal' = journalAfter(journal, errorLogs, messages)

\* the rules of the suggestion table, in declaration order
SuggestionRules == 1..12
RECURSIVE rulesInOrder(_, _)
rulesInOrder(k, matched) ==
  IF k \notin SuggestionRules THEN <<>>
  ELSE (IF k \in matched THEN <<k>> ELSE <<>>) \o rulesInOrder(k + 1, matched)
getErrorSuggestions(error) == rulesInOrder(1, error.rules)

\* createDetailedErrorLog(error, snippetId, targetFrame.src)
UnknownId == [kind |-> "unknown", n |-> 0]
AnonymousId == [kind |-> "anonymous", n |-> 0]
createDetailedErrorLog(error, snippetId, f) ==
  [snippetId |-> IF snippetId # NoId THEN snippetId ELSE UnknownId,
   error |-> error,
   hasStack |-> error.hasStack,
   hasLine |-> error.hasLine,
   urlKnown |-> frames[f].hasSrc]

\* (the history, had the log not been recorded)
errorHistoryUntouched(errorLog) == errorHistory

\* errorHistory after logDetailedError(errorLog)
errorHistoryAfter(errorLog) ==
  LET pushed == Append(errorHistory, errorLog)
  IN  IF Len(pushed) > maxHistorySize
        THEN sliceFromEnd(pushed, maxHistorySize)
        ELSE pushed

\* (a message for the first suggestion only)
suggestionMessagesFirstOnly(rules, snippetId) ==
  IF rules = <<>> THEN <<>>
  ELSE <<ConsoleMessage("info", "suggestion", "", Head(rules), snippetId)>>

RECURSIVE suggestionMessages(_, _)
suggestionMessages(rules, snippetId) ==
  IF rules = <<>> THEN <<>>
  ELSE <<ConsoleMessage("info", "suggestion", "", Head(rules), snippetId)>>
       \o suggestionMessages(Tail(rules), snippetId)

\* the ConsoleMessages logDetailedError(errorLog) emits, in order
detailedErrorMessages(errorLog) ==
  <<ConsoleMessage("error", "error", errorLog.error.kind, 0, errorLog.snippetId)>>
  \o (IF errorLog.hasLine
        THEN <<ConsoleMessage("error", "location", "", 0, errorLog.snippetId)>>
        ELSE <<>>)
  \o (IF errorLog.hasStack
        THEN <<ConsoleMessage("error", "stack", "", 0, errorLog.snippetId)>>
        ELSE <<>>)
  \o suggestionMessages(getErrorSuggestions(errorLog.error), errorLog.snippetId)
  \o (IF errorLog.urlKnown
        THEN <<ConsoleMessage("info", "context", "", 0, errorLog.snippetId)>>
        ELSE <<>>)

\* the ConsoleMessage logExecution(snippetName, snippetId, success) emits
executionMessage(snippetId, success) ==
  ConsoleMessage(IF success THEN "info" ELSE "error",
                 IF success THEN "executed" ELSE "failed", "", 0,
                 IF snippetId # NoId THEN snippetId ELSE AnonymousId)

\* ------------------------------------------------------ ScriptInjector
NoResult ==
  [success |-> FALSE, error |-> NoError, resourceUsage |-> ZeroUsage, warnings |-> <<>>]

\* ResourceMonitor.getResourceUsage() of a monitor constructed at startTime
getResourceUsage(startTime, mem) ==
  [memoryUsage |-> Max(0, mem), executionTime |-> clock - startTime,
   domModifications |-> 0]

\* The class holds two methods named cleanup.  The one written first
\* removes the execution's controller and disposes its monitor:
cleanupExecution(maps, executionId) ==
  [active |-> [maps.active EXCEPT ![executionId] = 0],
   monitors |-> [maps.monitors EXCEPT ![executionId] = 0],
   disposed |-> maps.disposed \cup ({maps.monitors[executionId]} \ {0})]

\* ... and the one written last, cleanup(targetFrame), is the one the class
\* ends up with, so it is what every this.cleanup(executionId) runs: it
\* reads its argument and changes nothing.
cleanup(maps, target) == maps

\* (an executor that leaves the race open and the timer armed when eval returns)
executeWithSafetyUnresolved(outcome) ==
  CASE outcome.how = "returns" ->
         [inner |-> "pending", innerError |-> NoError, timer |-> "armed"]
    [] outcome.how = "pending" ->
         [inner |-> "locked", innerError |-> NoError, timer |-> "cleared"]
    [] outcome.how = "throws" ->
         [inner |-> "rejected", innerError |-> outcome.error, timer |-> "cleared"]

\* executeWithSafety(code, frameWindow, executionId, signal): the promise and
\* the timer when the executor has run.  The timer is set, the fresh signal
\* is not aborted, the abort listener is added, and eval runs to its end:
\* whatever it does, clearTimeout comes before resolve or reject.
executeWithSafety(outcome) ==
  CASE outcome.how = "returns" ->
         [inner |-> "fulfilled", innerError |-> NoError, timer |-> "cleared"]
    [] outcome.how = "pending" ->      \* resolve(thenable): locked in, follows it
         [inner |-> "locked", innerError |-> NoError, timer |-> "cleared"]
    [] outcome.how = "throws" ->
         [inner |-> "rejected", innerError |-> outcome.error, timer |-> "cleared"]

\* (a catch block that lets the error go on to the caller)
catchBlockRethrows(error, usage, warnings) ==
  [outer |-> "rejected", result |-> NoResult]

\* The catch block of injectScript, once the error is logged: it returns a
\* failed ExecutionResult, which fulfils the promise of the async function.
catchBlock(error, usage, warnings) ==
  [outer |-> "fulfilled",
   result |-> [success |-> FALSE, error |-> error, resourceUsage |-> usage,
               warnings |-> warnings]]

\* (the check, had it been left out)
contentWindowAssumed(f) == TRUE

\* `!targetFrame.contentWindow` is false
contentWindowAccessible(f) == frames[f].hasWindow

\* setupConsoleCapture(frameWindow, snippetId) replaces the four console
\* methods of the window by functions that call addMessage with this
\* snippetId and then the method they replaced: the console of frame f is the
\* chain of the snippet ids it was installed with, the innermost first.
setupConsoleCapture(console, snippetId) == Append(console, snippetId)

\* the chain on the console of frame f after the runs made so far
RECURSIVE consoleOf(_, _)
consoleOf(f, k) ==
  IF k = 0 THEN <<>>
  ELSE IF runs[k].frame = f /\ runs[k].capture
    THEN setupConsoleCapture(consoleOf(f, k - 1), runs[k].snippetId)
    ELSE consoleOf(f, k - 1)

\* frameWindow.console[type]("hi") on a console with this chain: the
\* outermost function adds its message and calls the one below it
RECURSIVE consoleCall(_, _)
consoleCall(console, type) ==
  IF console = <<>> THEN <<>>
  ELSE << ConsoleMessage(type, "hi", "", 0, console[Len(console)]) >>
       \o consoleCall(SubSeq(console, 1, Len(console) - 1), type)

\* the messages of the console calls the evaluated code makes, in order
RECURSIVE consoleOutput(_, _)
consoleOutput(console, types) ==
  IF types = <<>> THEN <<>>
  ELSE consoleCall(console, Head(types)) \o consoleOutput(console, Tail(types))

\* injectScript(code, targetFrame, snippetId) up to its first await, or to
\* its end when it throws before it.  b is the executeOnLoad batch making the
\* call (0: a direct call); outcome is what eval does if it is reached; mem
\* is the memory reading if one is taken.
StartRun(code, f, sid, b, outcome, mem) ==
  LET r == Len(runs) + 1
      executionId == IF sid # NoId THEN sid ELSE GeneratedId(clock)
      reachable == contentWindowAccessible(f)
      monitored == reachable /\ options.enableResourceMonitoring
      capture == reachable /\ options.captureConsole
      console == IF capture
                   THEN setupConsoleCapture(consoleOf(f, Len(runs)), sid)
                   ELSE consoleOf(f, Len(runs))
      monitors == IF monitored
                    THEN [resourceMonitors EXCEPT ![executionId] = r]
                    ELSE resourceMonitors
      validation == IF reachable THEN validateCode(code)
                    ELSE [isValid |-> FALSE, errors |-> <<>>, warnings |-> <<>>]
      thrown == IF ~reachable THEN CrossOriginError
                ELSE IF ~validation.isValid THEN ValidationError(validation)
                ELSE NoError
      exec == executeWithSafety(outcome)
      output == consoleOutput(console, code.logs)
      m == monitors[executionId]
      usage == IF m = 0 THEN ZeroUsage
               ELSE getResourceUsage(IF m = r THEN clock ELSE runs[m].startedAt, mem)
      errorLog == createDetailedErrorLog(thrown, sid, f)
      maps == [active |-> [activeExecutions EXCEPT ![executionId] = r],
               monitors |-> monitors, disposed |-> {}]
      after == IF thrown = NoError THEN maps ELSE cleanup(maps, executionId)
      caught == catchBlock(thrown, usage, <<>>)
      run == [id |-> executionId, snippetId |-> sid, frame |-> f, batch |-> b,
              startedAt |-> clock, code |-> code,
              reachable |-> frames[f].hasWindow,
              monitored |-> monitored,
              capture |-> capture,
              logged |-> IF thrown = NoError THEN output ELSE <<>>,
              disconnects |-> IF r \in after.disposed THEN 1 ELSE 0,
              warnings |-> IF thrown = NoError THEN validation.warnings ELSE <<>>,
              evalCalls |-> IF thrown = NoError THEN 1 ELSE 0,
              evalOutcome |-> IF thrown = NoError THEN outcome.how ELSE "none",
              aborted |-> FALSE,
              listening |-> thrown = NoError,
              timer |-> IF thrown = NoError THEN exec.timer ELSE "none",
              inner |-> IF thrown = NoError THEN exec.inner ELSE "none",
              innerError |-> IF thrown = NoError THEN exec.innerError ELSE NoError,
              outer |-> IF thrown = NoError THEN "pending" ELSE caught.outer,
              result |-> IF thrown = NoError THEN NoResult ELSE caught.result]
  IN  /\ runs' = [k \in 1..r |->
                    IF k = r THEN run
                    ELSE IF k \in after.disposed
                      THEN [runs[k] EXCEPT !.disconnects = @ + 1]
                      ELSE runs[k]]
      /\ activeExecutions' = after.active
      /\ resourceMonitors' = after.monitors
      /\ IF thrown = NoError
           THEN /\ messageHistory' = addMessages(messageHistory, output)
                /\ Observed(<<>>, output)
                /\ UNCHANGED errorHistory
           ELSE /\ errorHistory' = errorHistoryAfter(errorLog)
                /\ messageHistory' =
                     addMessages(messageHistory,
                                 Append(detailedErrorMessages(errorLog),
                                        executionMessage(sid, FALSE)))
                /\ Observed(<<errorLog>>,
                            Append(detailedErrorMessages(errorLog),
                                   executionMessage(sid, FALSE)))
      /\ UNCHANGED <<options, clock, maxHistorySize, outputCallback, consoleCalls>>

\* A direct call of injectScript.
InjectScript(code, f, sid, outcome, mem) ==
  /\ calls.n < MaxCalls
  /\ StartRun(code, f, sid, 0, outcome, mem)
  /\ calls' = [n |-> calls.n + 1, op |-> "injectScript", returned |-> TRUE]
  /\ UNCHANGED <<frames, batches>>

\* (a memory ceiling that fails the run when it is exceeded)
withinMemoryCeiling(run, usage) ==
  run.inner = "fulfilled" /\ usage.memoryUsage <= options.maxMemoryUsage

\* the await of executeWithSafety returns instead of throwing: nothing
\* between it and `return { success: true, ... }` throws, whatever the usage
awaitReturns(run, usage) == run.inner = "fulfilled"

\* The continuation of injectScript after `await this.executeWithSafety(...)`.
Resume(r, mem) ==
  /\ r \in 1..Len(runs)
  /\ runs[r].outer = "pending"
  /\ runs[r].inner \in {"fulfilled", "rejected"}
  /\ LET run == runs[r]
         own == IF run.monitored THEN getResourceUsage(run.startedAt, mem)
                ELSE ZeroUsage
         ok == awaitReturns(run, own)
         m == resourceMonitors[run.id]
         looked == IF m = 0 THEN ZeroUsage
                   ELSE getResourceUsage(runs[m].startedAt, mem)
         warnings == run.warnings \o
                     (IF own.memoryUsage > options.maxMemoryUsage
                        THEN <<"High memory usage detected">> ELSE <<>>)
         errorLog == createDetailedErrorLog(run.innerError, run.snippetId, run.frame)
         maps == [active |-> activeExecutions, monitors |-> resourceMonitors,
                  disposed |-> {}]
         after == cleanup(maps, run.id)
         settled == IF ok
                      THEN [outer |-> "fulfilled",
                            result |-> [success |-> TRUE, error |-> NoError,
                                        resourceUsage |-> own, warnings |-> warnings]]
                      ELSE catchBlock(run.innerError, looked, run.warnings)
     IN  /\ runs' = [k \in 1..Len(runs) |->
                       LET d == IF k \in after.disposed THEN 1 ELSE 0
                       IN  IF k = r
                             THEN [run EXCEPT !.outer = settled.outer,
                                              !.result = settled.result,
                                              !.disconnects = @ + d]
                             ELSE [runs[k] EXCEPT !.disconnects = @ + d]]
         /\ activeExecutions' = after.active
         /\ resourceMonitors' = after.monitors
         /\ IF ok
              THEN /\ messageHistory' =
                        addMessages(messageHistory,
                          <<executionMessage(run.snippetId, TRUE)>> \o
                          (IF own.memoryUsage > 5 \/ own.domModifications > 100
                             THEN <<ConsoleMessage("info", "resource", "", 0, run.snippetId)>>
                             ELSE <<>>))
                   /\ Observed(<<>>,
                          <<executionMessage(run.snippetId, TRUE)>> \o
                          (IF own.memoryUsage > 5 \/ own.domModifications > 100
                             THEN <<ConsoleMessage("info", "resource", "", 0, run.snippetId)>>
                             ELSE <<>>))
                   /\ UNCHANGED errorHistory
              ELSE /\ errorHistory' = errorHistoryAfter(errorLog)
                   /\ messageHistory' =
                        addMessages(messageHistory,
                                    Append(detailedErrorMessages(errorLog),
                                           executionMessage(run.snippetId, FALSE)))
                   /\ Observed(<<errorLog>>,
                               Append(detailedErrorMessages(errorLog),
                                      executionMessage(run.snippetId, FALSE)))
  /\ UNCHANGED <<options, frames, batches, clock, maxHistorySize, outputCallback, consoleCalls, calls>>

\* The thenable eval handed back completes: the promise locked to it follows.
ThenableSettle(r, how) ==
  /\ r \in 1..Len(runs)
  /\ runs[r].inner = "locked"
  /\ how.how \in {"returns", "throws"}
  /\ runs' = [runs EXCEPT ![r].inner = IF how.how = "returns" THEN "fulfilled"
                                       ELSE "rejected",
                          ![r].innerError = how.error]
  /\ UNCHANGED <<activeExecutions, resourceMonitors, options, frames, batches,
                 clock, messageHistory, delivered, journal, errorHistory, maxHistorySize, outputCallback, consoleCalls, calls>>

\* reject(error) of the executeWithSafety promise: it settles the promise
\* only if neither resolve nor reject has been called on it before.
reject(run, error) ==
  IF run.inner = "pending"
    THEN [run EXCEPT !.inner = "rejected", !.innerError = error]
    ELSE run

\* controller.abort(): the signal becomes aborted and, the first time, its
\* abort listener runs: clearTimeout, reject('Script execution was aborted').
abort(run) ==
  IF run.aborted THEN run
  ELSE IF run.listening
    THEN reject([run EXCEPT !.aborted = TRUE,
                            !.timer = IF @ = "armed" THEN "cleared" ELSE @],
                AbortError)
    ELSE [run EXCEPT !.aborted = TRUE]

\* the setTimeout callback of executeWithSafety
timeoutCallback(run) == reject([run EXCEPT !.timer = "fired"], TimeoutError)

\* abortExecution(executionId)
AbortExecution(id) ==
  /\ calls.n < MaxCalls
  /\ LET c == activeExecutions[id]
         maps == [active |-> activeExecutions, monitors |-> resourceMonitors,
                  disposed |-> {}]
         after == IF c # 0 THEN cleanup(maps, id) ELSE maps
     IN  /\ runs' = [k \in 1..Len(runs) |->
                       LET d == IF k \in after.disposed THEN 1 ELSE 0
                           base == IF k = c THEN abort(runs[k]) ELSE runs[k]
                       IN  [base EXCEPT !.disconnects = @ + d]]
         /\ activeExecutions' = after.active
         /\ resourceMonitors' = after.monitors
  /\ calls' = [n |-> calls.n + 1, op |-> "abortExecution",
                returned |-> activeExecutions[id] # 0]
  /\ UNCHANGED <<options, frames, batches, clock, messageHistory, delivered, journal, errorHistory,
                 maxHistorySize, outputCallback, consoleCalls>>

\* emergencyStop()
EmergencyStop ==
  /\ calls.n < MaxCalls
  /\ LET signalled == {activeExecutions[id] : id \in ExecIds} \ {0}
         monitored == {resourceMonitors[id] : id \in ExecIds} \ {0}
     IN  runs' = [k \in 1..Len(runs) |->
                    LET base == IF k \in signalled THEN abort(runs[k]) ELSE runs[k]
                    IN  [base EXCEPT !.disconnects =
                                        IF k \in monitored THEN @ + 1 ELSE @]]
  /\ activeExecutions' = [id \in ExecIds |-> 0]
  /\ resourceMonitors' = [id \in ExecIds |-> 0]
  /\ messageHistory' =
       addMessage(messageHistory, ConsoleMessage("warn", "emergencyStop", "", 0, NoId))
  /\ Observed(<<>>, <<ConsoleMessage("warn", "emergencyStop", "", 0, NoId)>>)
  /\ calls' = [n |-> calls.n + 1, op |-> "emergencyStop", returned |-> TRUE]
  /\ UNCHANGED <<options, frames, batches, clock, errorHistory, maxHistorySize, outputCallback, consoleCalls>>

\* A continuation is queued as a microtask: it runs before any timer task.
MicrotaskPending ==
  \/ \E r \in 1..Len(runs) :
       runs[r].outer = "pending" /\ runs[r].inner \in {"fulfilled", "rejected"}
  \/ \E b \in 1..Len(batches) :
       batches[b].awaiting # 0 /\ runs[batches[b].awaiting].outer # "pending"

\* ------------------------------------------------------- executeOnLoad
\* A Snippet, by the fields the injector reads.
Snippet(id, code, enabled, onLoad, urlPattern) ==
  [id |-> id, code |-> code, enabled |-> enabled, executeOnLoad |-> onLoad,
   urlPattern |-> urlPattern]

\* (the condition, had the enabled flag not been read)
eligibleIgnoringEnabled(snippet, currentUrl) ==
  snippet.executeOnLoad /\ matchesUrlPattern(currentUrl, snippet.urlPattern)

\* the condition of the loop of executeSnippets
eligible(snippet, currentUrl) ==
  snippet.enabled /\ snippet.executeOnLoad
    /\ matchesUrlPattern(currentUrl, snippet.urlPattern)

\* the first index from `from` on at which the loop calls injectScript, or 0
nextEligible(snippets, currentUrl, from) ==
  LET later == {i \in from..Len(snippets) : eligible(snippets[i], currentUrl)}
  IN  IF later = {} THEN 0 ELSE CHOOSE i \in later : \A k \in later : i <= k

\* An executeOnLoad call: its arguments, whether it found the document not
\* ready and registered a load listener, the load events the frame has
\* dispatched since that registration (none, one, more than one), where its
\* executeSnippets closure stands (waiting for the load event, running, done),
\* the run it awaits and the array indices it has called injectScript for, in
\* order.
Batch(snippets, f, currentUrl) ==
  [snippets |-> snippets, frame |-> f, url |-> currentUrl, deferred |-> FALSE,
   notified |-> "none", state |-> "waiting", awaiting |-> 0, executed |-> <<>>]

\* executeSnippets of batch b of bs, from array index `from` up to its next
\* await, or to its end.
executeSnippets(bs, b, from, outcome, mem) ==
  LET batch == bs[b]
      i == nextEligible(batch.snippets, batch.url, from)
  IN  IF i = 0
        THEN /\ batches' = [bs EXCEPT ![b].state = "done", ![b].awaiting = 0]
             /\ UNCHANGED <<runs, activeExecutions, resourceMonitors, options,
                            clock, messageHistory, delivered, journal, errorHistory, maxHistorySize, outputCallback, consoleCalls>>
        ELSE /\ batches' = [bs EXCEPT ![b].state = "running",
                                      ![b].awaiting = Len(runs) + 1,
                                      ![b].executed = Append(@, i)]
             /\ StartRun(batch.snippets[i].code, batch.frame, batch.snippets[i].id,
                         b, outcome, mem)

\* executeOnLoad(snippets, targetFrame, currentUrl)
ExecuteOnLoad(snippets, f, currentUrl, outcome, mem) ==
  /\ Len(batches) < MaxBatches
  /\ LET b == Len(batches) + 1
         started == Append(batches, Batch(snippets, f, currentUrl))
     IN  IF frames[f].ready
           THEN /\ executeSnippets(started, b, 1, outcome, mem)
                /\ UNCHANGED frames
           ELSE /\ batches' = [started EXCEPT ![b].deferred = TRUE]
                /\ frames' = [frames EXCEPT ![f].loadListeners = Append(@, b)]
                /\ UNCHANGED <<runs, activeExecutions, resourceMonitors, options,
                               clock, messageHistory, delivered, journal, errorHistory, maxHistorySize, outputCallback, consoleCalls>>
  /\ calls' = [n |-> calls.n + 1, op |-> "executeOnLoad", returned |-> TRUE]

\* (listeners registered without the once option stay registered)
listenersKept(listeners) == listeners

\* the listeners left on the frame by a dispatch: all were registered with
\* { once: true }, so each is removed as it is called
listenersAfterDispatch(listeners) == <<>>

\* one more load event, as far as their number is told apart
countLoad(loads) == IF loads = "none" THEN "once" ELSE "again"

\* The frame's document finishes loading: the load event is dispatched to
\* the listeners registered at that moment.
FrameLoad(f) ==
  /\ frames[f].hasWindow
  /\ frames[f].dispatching = <<>>
  /\ ~MicrotaskPending
  /\ frames' = [frames EXCEPT ![f].ready = TRUE,
                              ![f].dispatching = frames[f].loadListeners,
                              ![f].loadListeners =
                                listenersAfterDispatch(frames[f].loadListeners)]
  /\ batches' = [b \in 1..Len(batches) |->
                    IF batches[b].frame = f /\ batches[b].deferred
                      THEN [batches[b] EXCEPT !.notified = countLoad(@)]
                      ELSE batches[b]]
  /\ UNCHANGED <<runs, activeExecutions, resourceMonitors, options, clock,
                 messageHistory, delivered, journal, errorHistory, maxHistorySize, outputCallback, consoleCalls, calls>>

\* The dispatch calls the next listener: executeSnippets starts.
LoadListener(f, outcome, mem) ==
  /\ frames[f].dispatching # <<>>
  /\ ~MicrotaskPending
  /\ frames' = [frames EXCEPT ![f].dispatching = Tail(@)]
  /\ executeSnippets(batches, Head(frames[f].dispatching), 1, outcome, mem)
  /\ UNCHANGED calls

\* (an await that does not wait for the promise it is given)
awaitedAtOnce(r) == TRUE

\* `await p` resumes once the promise of run r has settled
awaited(r) == runs[r].outer # "pending"

\* The continuation of executeSnippets after `await this.injectScript(...)`.
BatchResume(b, outcome, mem) ==
  /\ b \in 1..Len(batches)
  /\ batches[b].awaiting # 0
  /\ awaited(batches[b].awaiting)
  /\ executeSnippets(batches, b,
                     batches[b].executed[Len(batches[b].executed)] + 1, outcome, mem)
  /\ UNCHANGED <<frames, calls>>

\* Time passes by one tick; the timers then due run their callbacks.
Tick ==
  /\ clock < MaxClock
  /\ ~MicrotaskPending
  /\ clock' = clock + 1
  /\ runs' = [k \in 1..Len(runs) |->
                IF runs[k].timer = "armed" /\ clock + 1 >= runs[k].startedAt + options.timeout
                  THEN timeoutCallback(runs[k])
                  ELSE runs[k]]
  /\ UNCHANGED <<activeExecutions, resourceMonitors, options, frames, batches,
                 messageHistory, delivered, journal, errorHistory, maxHistorySize, outputCallback, consoleCalls, calls>>

\* ------------------------------------------------------------------ Init
\* the constructor's defaults, with the timeout in clock ticks
DefaultOptions ==
  [timeout |-> Timeout, captureConsole |-> TRUE,
   maxMemoryUsage |-> DEFAULT_MAX_MEMORY, enableResourceMonitoring |-> TRUE]

Init ==
  /\ runs = <<>>
  /\ activeExecutions = [id \in ExecIds |-> 0]
  /\ resourceMonitors = [id \in ExecIds |-> 0]
  /\ options = DefaultOptions
  /\ frames = [f \in FrameIds |->
                 [hasWindow |-> f = 1, ready |-> f = 1, hasSrc |-> f = 1,
                  loadListeners |-> <<>>, dispatching |-> <<>>]]
  /\ batches = <<>>
  /\ clock = 0
  /\ messageHistory = <<>>
  /\ errorHistory = <<>>
  /\ maxHistorySize = DEFAULT_MAX_HISTORY
  /\ outputCallback = 0
  /\ delivered = <<>>
  /\ journal = NoJournal
  /\ consoleCalls = NoConsoleCalls
  /\ calls = [n |-> 0, op |-> "none", returned |-> FALSE]

\* the inputs of the sandbox specification
SpecCodes == {CodeEmpty, CodeSyntaxError, CodePlain}
SpecOutcomes ==
  {o \in EvalOutcomes : o.how = "throws" => o.error.hasStack}
SpecMemory == {0}
SpecIds == {SnippetId(1), NoId}
SpecAbortIds == {SnippetId(1)} \cup {GeneratedId(t) : t \in 0..MaxClock}

Next ==
  \/ \E code \in SpecCodes, f \in FrameIds, sid \in SpecIds,
        outcome \in SpecOutcomes, mem \in SpecMemory :
       InjectScript(code, f, sid, outcome, mem)
  \/ \E r \in 1..MaxCalls, mem \in SpecMemory : Resume(r, mem)
  \/ \E r \in 1..MaxCalls, how \in SpecOutcomes : ThenableSettle(r, how)
  \/ \E id \in SpecAbortIds : AbortExecution(id)
  \/ EmergencyStop
  \/ Tick

Spec == Init /\ [][Next]_vars

\* ------------------------------------------- automatic execution on load
\* Frame 1 has loaded; frame 2 is attached and its document is still loading.
InitLoad ==
  /\ runs = <<>>
  /\ activeExecutions = [id \in ExecIds |-> 0]
  /\ resourceMonitors = [id \in ExecIds |-> 0]
  /\ options = DefaultOptions
  /\ frames = [f \in FrameIds |->
                 [hasWindow |-> TRUE, ready |-> f = 1, hasSrc |-> TRUE,
                  loadListeners |-> <<>>, dispatching |-> <<>>]]
  /\ batches = <<>>
  /\ clock = 0
  /\ messageHistory = <<>>
  /\ errorHistory = <<>>
  /\ maxHistorySize = DEFAULT_MAX_HISTORY
  /\ outputCallback = 0
  /\ delivered = <<>>
  /\ journal = NoJournal
  /\ consoleCalls = NoConsoleCalls
  /\ calls = [n |-> 0, op |-> "none", returned |-> FALSE]

\* "https://www.Ab.io/x" and "http://cd.io"
UrlAb ==
  << "h", "t", "t", "p", "s", ":", "/", "/", "w", "w", "w", ".", "A", "b", ".",
     "i", "o", "/", "x" >>
UrlCd == << "h", "t", "t", "p", ":", "/", "/", "c", "d", ".", "i", "o" >>
LoadUrls == {UrlAb, UrlCd}

\* "*.ab.io", "cd.io", "^https://www\.ab" and "[" (which does not compile)
PatternWildcardAb == << "*", ".", "a", "b", ".", "i", "o" >>
PatternCd == << "c", "d", ".", "i", "o" >>
PatternRegexAb ==
  << "^", "h", "t", "t", "p", "s", ":", "/", "/", "w", "w", "w", "\\", ".", "a", "b" >>
PatternBroken == << "[" >>

SnippetA == Snippet(SnippetId(1), CodePlain, TRUE, TRUE, PatternWildcardAb)
SnippetB == Snippet(SnippetId(2), CodePlain, FALSE, TRUE, PatternWildcardAb)
SnippetC == Snippet(SnippetId(3), CodePlain, TRUE, TRUE, PatternCd)
SnippetD == Snippet(SnippetId(2), CodeSyntaxError, TRUE, TRUE, <<>>)
SnippetE == Snippet(SnippetId(3), CodePlain, TRUE, FALSE, << "*" >>)
SnippetF == Snippet(SnippetId(3), CodePlain, TRUE, TRUE, PatternRegexAb)
SnippetG == Snippet(SnippetId(2), CodePlain, TRUE, TRUE, PatternBroken)
LoadSnippets ==
  { << SnippetA, SnippetB, SnippetC >>,
    << SnippetD, SnippetE, SnippetA >>,
    << SnippetG, SnippetA, SnippetF >>,
    << SnippetB, SnippetE >> }
LoadOutcomes == {o \in EvalOutcomes : o.how = "throws" => o.error.hasStack}
LoadSettles == {o \in EvalOutcomes : o.how = "returns"}

NextLoad ==
  \/ \E snippets \in LoadSnippets, f \in FrameIds, url \in LoadUrls,
        outcome \in LoadOutcomes, mem \in SpecMemory :
       ExecuteOnLoad(snippets, f, url, outcome, mem)
  \/ \E f \in FrameIds : FrameLoad(f)
  \/ \E f \in FrameIds, outcome \in LoadOutcomes, mem \in SpecMemory :
       LoadListener(f, outcome, mem)
  \/ \E b \in 1..MaxBatches, outcome \in LoadOutcomes, mem \in SpecMemory :
       BatchResume(b, outcome, mem)
  \/ \E r \in 1..Len(runs), mem \in SpecMemory : Resume(r, mem)
  \/ \E r \in 1..Len(runs), how \in LoadSettles : ThenableSettle(r, how)

SpecLoad == InitLoad /\ [][NextLoad]_vars

\* ------------------------------------------- the ConsoleManager by itself
\* The calls the application makes to the ConsoleManager.  None of them
\* touches the injector, the frames or the clock.
sandboxVars ==
  <<runs, activeExecutions, resourceMonitors, options, frames, batches, clock, calls>>

ConsoleCall(op, arg, returned) ==
  [n |-> consoleCalls.n + 1, op |-> op, arg |-> arg, returned |-> returned]

\* addMessage(message)
AddMessage(message) ==
  /\ consoleCalls.n < MaxConsoleCalls
  /\ messageHistory' = addMessage(messageHistory, message)
  /\ Observed(<<>>, <<message>>)
  /\ consoleCalls' = ConsoleCall("addMessage", message, <<>>)
  /\ UNCHANGED <<errorHistory, maxHistorySize, outputCallback>>
  /\ UNCHANGED sandboxVars

\* logDetailedError(errorLog)
LogDetailedError(errorLog) ==
  /\ consoleCalls.n < MaxConsoleCalls
  /\ errorHistory' = errorHistoryAfter(errorLog)
  /\ messageHistory' = addMessages(messageHistory, detailedErrorMessages(errorLog))
  /\ Observed(<<errorLog>>, detailedErrorMessages(errorLog))
  /\ consoleCalls' = ConsoleCall("logDetailedError", errorLog, <<>>)
  /\ UNCHANGED <<maxHistorySize, outputCallback>>
  /\ UNCHANGED sandboxVars

\* setOutputCallback(callback)
SetOutputCallback(callback) ==
  /\ consoleCalls.n < MaxConsoleCalls
  /\ outputCallback' = callback
  /\ journal' = [journal EXCEPT !.registered = callback]
  /\ consoleCalls' = ConsoleCall("setOutputCallback", callback, <<>>)
  /\ UNCHANGED <<messageHistory, errorHistory, maxHistorySize, delivered>>
  /\ UNCHANGED sandboxVars

\* setMaxHistorySize(size)
SetMaxHistorySize(size) ==
  /\ consoleCalls.n < MaxConsoleCalls
  /\ maxHistorySize' = size
  /\ messageHistory' = IF Len(messageHistory) > size
                         THEN sliceFromEnd(messageHistory, size)
                         ELSE messageHistory
  /\ consoleCalls' = ConsoleCall("setMaxHistorySize", size, <<>>)
  /\ UNCHANGED <<errorHistory, outputCallback, delivered, journal>>
  /\ UNCHANGED sandboxVars

\* clear()
Clear ==
  /\ consoleCalls.n < MaxConsoleCalls
  /\ messageHistory' = <<>>
  /\ journal' = [journal EXCEPT !.messages = <<>>]
  /\ consoleCalls' = ConsoleCall("clear", <<>>, <<>>)
  /\ UNCHANGED <<errorHistory, maxHistorySize, outputCallback, delivered>>
  /\ UNCHANGED sandboxVars

\* clearErrorHistory()
ClearErrorHistory ==
  /\ consoleCalls.n < MaxConsoleCalls
  /\ errorHistory' = <<>>
  /\ journal' = [journal EXCEPT !.errors = <<>>]
  /\ consoleCalls' = ConsoleCall("clearErrorHistory", <<>>, <<>>)
  /\ UNCHANGED <<messageHistory, maxHistorySize, outputCallback, delivered>>
  /\ UNCHANGED sandboxVars

\* (a scoped clear that leaves the error history alone)
clearSnippetErrorsSkipped(errors, snippetId) == errors

\* errorHistory after clearSnippetErrors(snippetId)
clearSnippetErrors(errors, snippetId) ==
  SelectSeq(errors, LAMBDA error : error.snippetId # snippetId)

\* clearSnippetMessages(snippetId)
ClearSnippetMessages(snippetId) ==
  /\ consoleCalls.n < MaxConsoleCalls
  /\ messageHistory' = SelectSeq(messageHistory, LAMBDA msg : msg.snippetId # snippetId)
  /\ errorHistory' = clearSnippetErrors(errorHistory, snippetId)
  /\ journal' = [journal EXCEPT !.messages = messageHistory', !.errors = errorHistory']
  /\ consoleCalls' = ConsoleCall("clearSnippetMessages", snippetId, <<>>)
  /\ UNCHANGED <<maxHistorySize, outputCallback, delivered>>
  /\ UNCHANGED sandboxVars

\* the category of each rule of the suggestion table
categoryOf(rule) ==
  IF rule \in 1..3 THEN "syntax"
  ELSE IF rule \in 4..6 THEN "runtime"
  ELSE IF rule \in 7..8 THEN "dom"
  ELSE IF rule \in 9..10 THEN "security"
  ELSE "performance"
Categories == {"syntax", "runtime", "dom", "security", "performance", "unknown"}

\* (the category of the last suggestion instead of the first)
lastCategory(suggestions) ==
  IF Len(suggestions) > 0 THEN categoryOf(suggestions[Len(suggestions)]) ELSE "unknown"

\* suggestions.length > 0 ? suggestions[0].category : 'unknown'
firstCategory(suggestions) ==
  IF Len(suggestions) > 0 THEN categoryOf(suggestions[1]) ELSE "unknown"

\* (the first ten errors instead of the last ten)
oldestErrors(errors) == SubSeq(errors, 1, Min(RECENT_ERRORS, Len(errors)))

\* this.errorHistory.slice(-10)
recentErrors(errors) == sliceFromEnd(errors, RECENT_ERRORS)

\* getErrorStatistics(); a key a count map does not hold reads as 0
RECURSIVE countErrors(_, _, _)
countErrors(errors, byCategory, bySnippet) ==
  IF errors = <<>> THEN [errorsByCategory |-> byCategory, errorsBySnippet |-> bySnippet]
  ELSE LET error == Head(errors)
           category == firstCategory(getErrorSuggestions(error.error))
       IN  countErrors(Tail(errors),
                       [byCategory EXCEPT ![category] = @ + 1],
                       [bySnippet EXCEPT ![error.snippetId] = @ + 1])
StatisticsIds == SnippetIds \cup {UnknownId, AnonymousId}
getErrorStatistics ==
  LET counts == countErrors(errorHistory, [c \in Categories |-> 0],
                            [id \in StatisticsIds |-> 0])
  IN  [totalErrors |-> Len(errorHistory),
       errorsByCategory |-> counts.errorsByCategory,
       errorsBySnippet |-> counts.errorsBySnippet,
       recentErrors |-> recentErrors(errorHistory)]

\* One line of exportAsText for a message: its label is the snippet id when
\* it has one and its source otherwise; the type is written in upper case.
textLine(msg) ==
  [label |-> IF msg.snippetId # NoId THEN msg.snippetId ELSE msg.source,
   type |-> msg.type, text |-> msg.text, kind |-> msg.kind, rule |-> msg.rule]
\* One block of exportAsText for an error: id, location if any, text, stack.
textBlock(error) ==
  [label |-> error.snippetId, located |-> error.hasLine, text |-> error.error.kind,
   rules |-> error.error.rules, stack |-> error.hasStack]
\* One line of the RECENT ERRORS part of exportErrorReport.
reportLine(error) ==
  [located |-> error.hasLine, text |-> error.error.kind, rules |-> error.error.rules]

exportAsText ==
  [format |-> "text",
   messages |-> [k \in 1..Len(messageHistory) |-> textLine(messageHistory[k])],
   errors |-> [k \in 1..Len(errorHistory) |-> textBlock(errorHistory[k])]]

\* JSON.stringify writes the own fields of every entry, in array order
exportAsJSON ==
  [format |-> "json",
   messages |-> messageHistory,
   errors |-> errorHistory,
   statistics |-> getErrorStatistics]

exportErrorReport ==
  LET stats == getErrorStatistics
  IN  [format |-> "report",
       totalErrors |-> stats.totalErrors,
       errorsByCategory |-> stats.errorsByCategory,
       errorsBySnippet |-> stats.errorsBySnippet,
       errors |-> [k \in 1..Len(stats.recentErrors) |-> reportLine(stats.recentErrors[k])]]

\* A call that reads the ConsoleManager and returns what it computed.
Query(op, returned) ==
  /\ consoleCalls.n < MaxConsoleCalls
  /\ consoleCalls' = ConsoleCall(op, <<>>, returned)
  /\ UNCHANGED <<messageHistory, errorHistory, maxHistorySize, outputCallback,
                 delivered, journal>>
  /\ UNCHANGED sandboxVars

GetErrorStatistics == Query("getErrorStatistics", getErrorStatistics)
ExportAsText == Query("exportAsText", exportAsText)
ExportAsJSON == Query("exportAsJSON", exportAsJSON)
ExportErrorReport == Query("exportErrorReport", exportErrorReport)

\* The inputs: a message of snippet 1 and one of the hosted page; an error of
\* snippet 1 that matches rules 4 and 7, and one without an id that matches
\* no rule.
MessageOfSnippet(id) == ConsoleMessage("log", "log", "", 0, id)
MessageOfPage == [ConsoleMessage("warn", "log", "", 0, NoId) EXCEPT !.source = "page"]
ErrorLogOf(id, error) ==
  [snippetId |-> id, error |-> error, hasStack |-> error.hasStack,
   hasLine |-> error.hasLine, urlKnown |-> FALSE]
NullDereference ==
  CHOOSE e \in ThrownErrors : e.rules = {4, 7}
ConsoleMessages == {MessageOfSnippet(SnippetId(1)), MessageOfPage}
ConsoleErrors ==
  {ErrorLogOf(SnippetId(1), NullDereference), ErrorLogOf(UnknownId, AbortError)}
ConsoleMaxima == {0, 2, DEFAULT_MAX_HISTORY}
ConsoleSizes == {1}
ConsoleListeners == {1, 2}
ConsoleIds == {SnippetId(1)}

\* A ConsoleManager that has been in use: messages of two snippets and of
\* the page with their errors, and one with eleven errors whose messages
\* were cleared.
UsedMessages ==
  << MessageOfSnippet(SnippetId(1)), MessageOfPage, MessageOfSnippet(SnippetId(2)) >>
UsedErrors ==
  << ErrorLogOf(SnippetId(1), TimeoutError), ErrorLogOf(SnippetId(2), AbortError) >>
ElevenErrors ==
  [k \in 1..(RECENT_ERRORS + 1) |->
     IF k = 1 THEN ErrorLogOf(SnippetId(2), TimeoutError)
     ELSE IF k % 2 = 0 THEN ErrorLogOf(SnippetId(1), NullDereference)
     ELSE ErrorLogOf(UnknownId, AbortError)]
UsedHistories ==
  { [messages |-> <<>>, errors |-> <<>>, max |-> size] : size \in ConsoleMaxima }
  \cup { [messages |-> UsedMessages, errors |-> UsedErrors, max |-> DEFAULT_MAX_HISTORY],
         [messages |-> <<>>, errors |-> ElevenErrors, max |-> DEFAULT_MAX_HISTORY] }

InitConsole ==
  /\ runs = <<>>
  /\ activeExecutions = [id \in ExecIds |-> 0]
  /\ resourceMonitors = [id \in ExecIds |-> 0]
  /\ options = DefaultOptions
  /\ frames = [f \in FrameIds |->
                 [hasWindow |-> f = 1, ready |-> f = 1, hasSrc |-> f = 1,
                  loadListeners |-> <<>>, dispatching |-> <<>>]]
  /\ batches = <<>>
  /\ clock = 0
  /\ calls = [n |-> 0, op |-> "none", returned |-> FALSE]
  /\ \E used \in UsedHistories :
       /\ messageHistory = used.messages
       /\ errorHistory = used.errors
       /\ maxHistorySize = used.max
       /\ journal = [NoJournal EXCEPT !.messages = used.messages,
                                      !.errors = used.errors]
  /\ outputCallback = 0
  /\ delivered = <<>>
  /\ consoleCalls = NoConsoleCalls

NextConsole ==
  \/ \E message \in ConsoleMessages : AddMessage(message)
  \/ \E errorLog \in ConsoleErrors : LogDetailedError(errorLog)
  \/ \E callback \in ConsoleListeners : SetOutputCallback(callback)
  \/ \E size \in ConsoleSizes : SetMaxHistorySize(size)
  \/ Clear
  \/ ClearErrorHistory
  \/ \E id \in ConsoleIds : ClearSnippetMessages(id)
  \/ GetErrorStatistics
  \/ ExportAsText
  \/ ExportAsJSON
  \/ ExportErrorReport

SpecConsole == InitConsole /\ [][NextConsole]_vars

\* ----------------------------------------------------- executeImmediate
\* new Error('Snippet is disabled') and the result returned with it
DisabledError == [kind |-> "disabled", rules |-> {}, hasStack |-> TRUE, hasLine |-> TRUE]
DisabledResult ==
  [success |-> FALSE, error |-> DisabledError, resourceUsage |-> ZeroUsage,
   warnings |-> <<>>]

\* (an executeImmediate that does not read the enabled flag)
disabledNever(snippet) == FALSE

\* `!snippet.enabled`
disabled(snippet) == ~snippet.enabled

\* executeImmediate(snippet, targetFrame), up to the first await of the
\* injectScript call it makes.  run is the injectScript call whose promise
\* it returns, 0 when it returns the result itself.
ExecuteImmediate(snippet, f, outcome, mem) ==
  /\ calls.n < MaxCalls
  /\ IF disabled(snippet)
       THEN /\ calls' = [n |-> calls.n + 1, op |-> "executeImmediate", returned |-> TRUE,
                         snippet |-> snippet, frame |-> f, run |-> 0,
                         result |-> DisabledResult]
            /\ UNCHANGED <<runs, activeExecutions, resourceMonitors, options, clock>>
            /\ UNCHANGED consoleVars
       ELSE /\ StartRun(snippet.code, f, snippet.id, 0, outcome, mem)
            /\ calls' = [n |-> calls.n + 1, op |-> "executeImmediate", returned |-> TRUE,
                         snippet |-> snippet, frame |-> f, run |-> Len(runs) + 1,
                         result |-> NoResult]
  /\ UNCHANGED <<frames, batches>>

\* Snippets run by hand: enabled and disabled, valid and not.
ImmediateSnippets ==
  { Snippet(id, code, enabled, FALSE, <<>>) :
      id \in {SnippetId(1), SnippetId(2)}, code \in {CodePlain, CodeSyntaxError},
      enabled \in BOOLEAN }
NextImmediate ==
  \/ \E snippet \in ImmediateSnippets, f \in FrameIds, outcome \in SpecOutcomes :
       ExecuteImmediate(snippet, f, outcome, 0)
  \/ \E r \in 1..MaxCalls : Resume(r, 0)
  \/ \E r \in 1..MaxCalls, how \in SpecOutcomes : ThenableSettle(r, how)
SpecImmediate == Init /\ [][NextImmediate]_vars

\* Error logs given to logDetailedError on an empty ConsoleManager: with
\* and without a stack, a line:column, matching rules and a known url.
DetailedErrors ==
  ThrownErrors \cup
  {TimeoutError, [kind |-> "runtime", rules |-> {4, 7}, hasStack |-> FALSE, hasLine |-> TRUE]}
DetailedErrorLogs ==
  { [ErrorLogOf(SnippetId(1), error) EXCEPT !.urlKnown = known] :
      error \in DetailedErrors, known \in BOOLEAN }
NextErrorLog == \E errorLog \in DetailedErrorLogs : LogDetailedError(errorLog)
SpecErrorLog == Init /\ [][NextErrorLog]_vars

\* Runs of code that writes to the console, on the reachable frame and
\* on the unreachable one, with and without a snippet id.
CaptureCodes == {CodePlain, CodeLogs}
NextCapture ==
  \/ \E code \in CaptureCodes, f \in FrameIds, sid \in SpecIds, outcome \in SpecOutcomes :
       InjectScript(code, f, sid, outcome, 0)
  \/ \E r \in 1..MaxCalls : Resume(r, 0)
  \/ \E r \in 1..MaxCalls, how \in SpecOutcomes : ThenableSettle(r, how)
SpecCapture == Init /\ [][NextCapture]_vars

\* ------------------------------------------------------ runs with warnings
\* Direct calls with code the validator warns about and memory readings
\* above the ceiling, on the loaded frame.
WarnCodes == {CodePlain, CodeRisky}
WarnOutcomes == {o \in SpecOutcomes : o.how # "throws"}

NextWarn ==
  \/ \E code \in WarnCodes, sid \in SpecIds, outcome \in WarnOutcomes,
        mem \in MemoryReadings :
       InjectScript(code, 1, sid, outcome, mem)
  \/ \E r \in 1..MaxCalls, mem \in MemoryReadings : Resume(r, mem)
  \/ \E r \in 1..MaxCalls, how \in SpecOutcomes : ThenableSettle(r, how)

SpecWarn == Init /\ [][NextWarn]_vars

\* ------------------------------------------------- the matcher by itself
\* matchesUrlPattern(url, pattern) called from outside
MatchesUrlPattern(url, pattern) ==
  /\ calls.n < MaxCalls
  /\ LET ended == callMatchesUrlPattern(url, pattern)
     IN  calls' = [n |-> calls.n + 1, op |-> "matchesUrlPattern",
                   returned |-> ~ended.threw, args |-> <<url, pattern>>,
                   value |-> ended.value]
  /\ UNCHANGED <<runs, activeExecutions, resourceMonitors, options, frames, batches,
                 clock>>
  /\ UNCHANGED consoleVars

\* "ab.io" and the empty location
UrlBare == << "a", "b", ".", "i", "o" >>
MatchUrls == {UrlAb, UrlCd, UrlBare, <<>>}
\* "https://*.ww\.ab": a wildcard-domain pattern once its protocol is
\* stripped, and a regular expression (https:/, any number of /, any
\* character, ww, a dot, ab) as it stands
PatternWildcardRegex ==
  << "h", "t", "t", "p", "s", ":", "/", "/", "*", ".", "w", "w", "\\", ".", "a", "b" >>
\* the patterns of the load specification, and "", "*", ".*", "\", "^*",
\* "*.[ab]", "io$", "[ac]d", "AB.IO", "http://www.cd.io"
MatchPatterns ==
  { PatternWildcardAb, PatternCd, PatternRegexAb, PatternBroken, PatternWildcardRegex,
    <<>>, << "*" >>, << ".", "*" >>, << "\\" >>, << "^", "*" >>,
    << "*", ".", "[", "a", "b", "]" >>, << "i", "o", "$" >>,
    << "[", "a", "c", "]", "d" >>, << "A", "B", ".", "I", "O" >>,
    << "h", "t", "t", "p", ":", "/", "/", "w", "w", "w", ".", "c", "d", ".", "i", "o" >> }

NextMatch ==
  \E url \in MatchUrls, pattern \in MatchPatterns : MatchesUrlPattern(url, pattern)

SpecMatch == Init /\ [][NextMatch]_vars

\* ---------------------------------------------------------------- claims
Started == 1..Len(runs)
Settled(r) == runs[r].outer # "pending"
InFlight(r) == runs[r].outer = "pending"
Invalid(code) == code.blank \/ ~code.parses
Elapsed(r) == clock >= runs[r].startedAt + options.timeout

C2_SettledRunLeavesMap ==
  \A r \in Started :
    Settled(r) => activeExecutions[runs[r].id] # r

\* C3: when the configured timeout has elapsed for a run, the run is no
\* longer waiting on its evaluation: the race has been decided, by the
\* evaluation completing in time or by the timeout rejecting it.
C3_TimeoutDecidesRace ==
  \A r \in Started :
    (runs[r].evalCalls = 1 /\ Elapsed(r)) => runs[r].inner \in {"fulfilled", "rejected"}

\* The race of run r is rejected with the abort classification, so the run
\* settles (or has settled) with success=false and an abort error.
AbortedRace(r) ==
  /\ runs[r].inner = "rejected"
  /\ runs[r].innerError.kind = "abort"
  /\ Settled(r) => (~runs[r].result.success /\ runs[r].result.error.kind = "abort")

\* C4: abortExecution(id), called while the execution with that id is in
\* flight, signals its controller and makes its race reject with the abort
\* classification.
C4_AbortRejectsInFlightRun ==
  [][ (calls'.n = calls.n + 1 /\ calls'.op = "abortExecution")
        => \A r \in Started :
             (InFlight(r) /\ activeExecutions[runs[r].id] = r)
               => (runs'[r].aborted /\ AbortedRace(r)') ]_vars

\* C5: emergencyStop(), called with N executions in flight, makes all N
\* settle as aborted, leaves the active-execution map empty and appends
\* exactly one warning ConsoleMessage (also when N = 0).
Warnings(history) == Len(SelectSeq(history, LAMBDA m : m.type = "warn"))
C5_EmergencyStopAbortsAll ==
  [][ (calls'.n = calls.n + 1 /\ calls'.op = "emergencyStop")
        => /\ \A r \in Started : InFlight(r) => AbortedRace(r)'
           /\ \A id \in ExecIds : activeExecutions'[id] = 0
           /\ Warnings(messageHistory') = Warnings(messageHistory) + 1
           /\ Len(messageHistory') = Len(messageHistory) + 1 ]_vars

SettlesNow(r) == InFlight(r) /\ Settled(r)'
C8_SuccessAppendsNoErrorLog ==
  [][ \A r \in Started :
        (SettlesNow(r) /\ ~Invalid(runs[r].code)
           /\ (runs[r].evalOutcome = "returns"
                 \/ (runs[r].evalOutcome = "pending" /\ runs[r].inner = "fulfilled")))
          => /\ runs'[r].outer = "fulfilled"
             /\ runs'[r].result.success
             /\ runs'[r].result.error = NoError
             /\ errorHistory' = errorHistory ]_vars

C8_Witness ==
  \E r1, r2 \in Started :
    /\ Settled(r1) /\ runs[r1].evalOutcome = "returns" /\ runs[r1].result.success
    /\ Settled(r2) /\ runs[r2].evalOutcome = "pending" /\ runs[r2].result.success
    /\ errorHistory = <<>>

\* C9: when the frame has no content window, the run fails immediately (it
\* is settled when injectScript returns) with success=false and the
\* cross-origin error, and eval is not called.
C9_UnreachableContextFailsAtOnce ==
  \A r \in Started :
    ~runs[r].reachable =>
      /\ runs[r].outer = "fulfilled"
      /\ ~runs[r].result.success
      /\ runs[r].result.error = CrossOriginError
      /\ runs[r].evalCalls = 0
      /\ runs[r].inner = "none"

C9_Witness ==
  \E r \in Started : ~runs[r].reachable /\ Settled(r)

\* The indices of the snippets of batch b that are enabled, marked
\* executeOnLoad and whose pattern matches the current location, in array
\* order; and the runs batch b has started, in the order it started them.
ShouldRun(b) ==
  SelectSeq([i \in 1..Len(batches[b].snippets) |-> i],
            LAMBDA i : /\ batches[b].snippets[i].enabled
                       /\ batches[b].snippets[i].executeOnLoad
                       /\ matchesUrlPattern(batches[b].url,
                                            batches[b].snippets[i].urlPattern))
RunsOf(b) ==
  SelectSeq([r \in 1..Len(runs) |-> r], LAMBDA r : runs[r].batch = b)

\* C10: executeOnLoad executes the snippets that are enabled, marked
\* executeOnLoad and match the current location, each once and in array
\* order, and no other snippet: at any moment the snippets a batch has
\* executed are the first of these, one run each with that snippet's code and
\* id, and a batch that has finished has executed all of them.
C10_BatchExecutesEligibleInOrder ==
  \A b \in 1..Len(batches) :
    LET did == batches[b].executed
        started == RunsOf(b)
        should == ShouldRun(b)
    IN  /\ Len(did) <= Len(should)
        /\ did = SubSeq(should, 1, Len(did))
        /\ batches[b].state = "done" => did = should
        /\ Len(started) = Len(did)
        /\ \A k \in 1..Len(started) :
             /\ runs[started[k]].code = batches[b].snippets[did[k]].code
             /\ runs[started[k]].snippetId = batches[b].snippets[did[k]].id

C10_Witness ==
  \E b \in 1..Len(batches) :
    /\ batches[b].frame = 1 /\ frames[1].ready
    /\ batches[b].state = "done"
    /\ Len(batches[b].snippets) = 3
    /\ batches[b].executed = <<2, 3>>
    /\ \A r \in Started : Settled(r)

\* C11: within one executeOnLoad batch at most one execution is in flight
\* at any time: every run of the batch but the one started last has settled,
\* so a run starts only after the run before it in the batch has settled.
C11_BatchRunsOneAtATime ==
  \A b \in 1..Len(batches) :
    LET started == RunsOf(b)
    IN  /\ \A k \in 1..(Len(started) - 1) : Settled(started[k])
        /\ Cardinality({k \in 1..Len(started) : InFlight(started[k])}) <= 1

C11_Witness ==
  \E b \in 1..Len(batches) :
    /\ Len(RunsOf(b)) = 2
    /\ Settled(RunsOf(b)[1])
    /\ InFlight(RunsOf(b)[2])

\* C12: in an executeOnLoad batch every eligible snippet is eventually
\* attempted, whatever happens to the snippets before it.  The loop goes on
\* when the run it awaits settles, so the claim needs that run to be on its
\* way to settle by steps the code has scheduled: it has settled, or its race
\* is decided and the continuation is queued, or its timeout timer is armed.
C12_BatchNeverStuck ==
  \A b \in 1..Len(batches) :
    (batches[b].state = "running" /\ batches[b].executed # ShouldRun(b)) =>
      LET r == batches[b].awaiting
      IN  \/ Settled(r)
          \/ runs[r].inner \in {"fulfilled", "rejected"}
          \/ runs[r].timer = "armed"

\* the listeners of frame f, registered or being called by a dispatch
Listening(f) == frames[f].loadListeners \o frames[f].dispatching
Occurrences(s, x) == Cardinality({k \in 1..Len(s) : s[k] = x})

\* C13: a batch whose executeOnLoad call found the document not ready
\* executes nothing before the frame's load notification, runs once on the
\* first notification and is not run again by later ones: until the first
\* load it waits with its listener registered and no run of its own; from
\* then on its listener is gone from the frame (at most still in the dispatch
\* that removed it), and at no time has it executed more than one pass over
\* its eligible snippets.
C13_DeferredBatchRunsOnceOnLoad ==
  \A b \in 1..Len(batches) :
    batches[b].deferred =>
      LET f == batches[b].frame
          should == ShouldRun(b)
      IN  /\ batches[b].notified = "none" =>
               /\ batches[b].state = "waiting"
               /\ batches[b].executed = <<>> /\ RunsOf(b) = <<>>
               /\ Occurrences(frames[f].loadListeners, b) = 1
          /\ batches[b].notified # "none" =>
               /\ Occurrences(frames[f].loadListeners, b) = 0
               /\ batches[b].state = "waiting" <=>
                    Occurrences(frames[f].dispatching, b) = 1
               /\ batches[b].state # "waiting" =>
                    Occurrences(frames[f].dispatching, b) = 0
          /\ Len(RunsOf(b)) = Len(batches[b].executed)
          /\ Len(batches[b].executed) <= Len(should)
          /\ batches[b].executed = SubSeq(should, 1, Len(batches[b].executed))

C13_Witness ==
  \E b \in 1..Len(batches) :
    /\ batches[b].deferred
    /\ batches[b].notified = "again"
    /\ batches[b].state = "done"
    /\ Len(batches[b].executed) = 2
    /\ Listening(batches[b].frame) = <<>>

\* C14: after any sequence of ConsoleManager calls neither history holds
\* more entries than the maximum size configured at that moment.
C14_HistoriesWithinMaximum ==
  /\ Len(messageHistory) <= maxHistorySize
  /\ Len(errorHistory) <= maxHistorySize

IsSuffix(s, log) ==
  Len(s) <= Len(log) /\ s = SubSeq(log, Len(log) - Len(s) + 1, Len(log))

\* C15: the histories are append-only with oldest-first eviction: each
\* history is the newest part, in append order and unmodified, of what has
\* been appended on top of what the last clearing operation left.
C15_HistoriesAreNewestAppended ==
  /\ IsSuffix(messageHistory, journal.messages)
  /\ IsSuffix(errorHistory, journal.errors)

C15_Witness ==
  /\ maxHistorySize = 2
  /\ Len(journal.errors) = 3 /\ Len(errorHistory) = 2
  /\ Len(journal.messages) > 2 /\ Len(messageHistory) = 2
  /\ messageHistory[1] # messageHistory[2]

\* C16: addMessage appends the message to the history before it notifies,
\* and notifies the listener most recently registered with
\* setOutputCallback, once per added message: the calls the listeners have
\* received are, in order, one for every message added while a listener was
\* registered, made to the listener registered at that time, with the
\* message already the newest entry of the history.
C16_EachMessageNotifiedOnceToCurrentListener ==
  LET expected == SelectSeq(journal.added, LAMBDA a : a.listener # 0)
  IN  /\ Len(delivered) = Len(expected)
      /\ \A k \in 1..Len(delivered) :
           /\ delivered[k].listener = expected[k].listener
           /\ delivered[k].message = expected[k].message
           /\ delivered[k].stored

C16_Witness ==
  /\ Len(delivered) = 2
  /\ delivered[1].listener = 1 /\ delivered[2].listener = 2
  /\ outputCallback = 2
  /\ consoleCalls.op = "addMessage"

Carrying(history, id) == {k \in 1..Len(history) : history[k].snippetId = id}
Others(history, id) == SelectSeq(history, LAMBDA entry : entry.snippetId # id)

\* C17: clearSnippetMessages(id) removes every message and every error
\* log carrying that id and leaves the entries of other snippets and of the
\* hosted page in both histories, in their order.
C17_ScopedClearRemovesOnlyThatSnippet ==
  [][ (consoleCalls'.n # consoleCalls.n /\ consoleCalls'.op = "clearSnippetMessages") =>
        LET id == consoleCalls'.arg
        IN  /\ Carrying(messageHistory', id) = {}
            /\ Carrying(errorHistory', id) = {}
            /\ messageHistory' = Others(messageHistory, id)
            /\ errorHistory' = Others(errorHistory, id)
            /\ UNCHANGED <<maxHistorySize, outputCallback, delivered>> ]_vars

C17_Witness ==
  /\ consoleCalls.n = 1 /\ consoleCalls.op = "clearSnippetMessages"
  /\ consoleCalls.arg = SnippetId(1)
  /\ messageHistory = << MessageOfPage, MessageOfSnippet(SnippetId(2)) >>
  /\ errorHistory = << ErrorLogOf(SnippetId(2), AbortError) >>

ExportOps == {"exportAsText", "exportAsJSON", "exportErrorReport"}
Exported(op) == consoleCalls'.n # consoleCalls.n /\ consoleCalls'.op = op
\* the messages and the errors an export shows, and how it shows one entry
ShownMessages(export) == IF export.format = "report" THEN <<>> ELSE export.messages
ShownErrors(export) == export.errors
ShowMessage(format, msg) == IF format = "text" THEN textLine(msg) ELSE msg
ShowError(format, error) ==
  IF format = "text" THEN textBlock(error)
  ELSE IF format = "report" THEN reportLine(error)
  ELSE error
ShowsMessages(export, messages) ==
  /\ Len(ShownMessages(export)) = Len(messages)
  /\ \A k \in 1..Len(messages) :
       ShownMessages(export)[k] = ShowMessage(export.format, messages[k])
ShowsErrors(export, errors) ==
  /\ Len(ShownErrors(export)) = Len(errors)
  /\ \A k \in 1..Len(errors) :
       ShownErrors(export)[k] = ShowError(export.format, errors[k])
Newest(history, n) ==
  SubSeq(history, Len(history) - Min(n, Len(history)) + 1, Len(history))

\* C18 as stated: no export changes the histories, the listener or the
\* maximum size, and each of exportAsText, exportAsJSON and exportErrorReport
\* shows exactly the messages and the errors of the history, in order.
C18_ExportsShowWholeHistory ==
  [][ \A op \in ExportOps : Exported(op) =>
        /\ UNCHANGED <<messageHistory, errorHistory, outputCallback, maxHistorySize>>
        /\ ShowsMessages(consoleCalls'.returned, messageHistory)
        /\ ShowsErrors(consoleCalls'.returned, errorHistory) ]_vars

\* C18: no export changes the histories, the listener, the maximum size or
\* what the listeners have received; exportAsText and exportAsJSON show
\* exactly the messages and the errors of the history, in order;
\* exportErrorReport shows no message and only the newest ten errors, in
\* order, with the count of all of them.
C18_ExportsAreReadOnly ==
  [][ \A op \in ExportOps : Exported(op) =>
        LET export == consoleCalls'.returned
        IN  /\ UNCHANGED <<messageHistory, errorHistory, outputCallback,
                           maxHistorySize, delivered>>
            /\ op # "exportErrorReport" =>
                 /\ ShowsMessages(export, messageHistory)
                 /\ ShowsErrors(export, errorHistory)
            /\ op = "exportErrorReport" =>
                 /\ ShownMessages(export) = <<>>
                 /\ ShowsErrors(export, Newest(errorHistory, RECENT_ERRORS))
                 /\ export.totalErrors = Len(errorHistory) ]_vars

C18_Witness ==
  /\ consoleCalls.op = "exportErrorReport"
  /\ Len(errorHistory) = RECENT_ERRORS + 1
  /\ Len(consoleCalls.returned.errors) = RECENT_ERRORS
  /\ messageHistory # <<>>

RECURSIVE SumOver(_, _)
SumOver(count, keys) ==
  IF keys = {} THEN 0
  ELSE LET key == CHOOSE k \in keys : TRUE
       IN  count[key] + SumOver(count, keys \ {key})
\* the category of the lowest-numbered rule of the table the error matches
CategoryInTableOrder(error) ==
  IF error.error.rules = {} THEN "unknown"
  ELSE categoryOf(CHOOSE rule \in error.error.rules :
                    \A other \in error.error.rules : rule <= other)

C20_MatcherNeverThrows ==
  [][ (calls'.n # calls.n /\ calls'.op = "matchesUrlPattern") =>
        /\ calls'.returned
        /\ calls'.value \in BOOLEAN
        /\ (looksLikeRegExp(calls'.args[2]) /\ ~RegExp(calls'.args[2]).ok) =>
             calls'.value = FALSE
        /\ UNCHANGED <<runs, activeExecutions, resourceMonitors, options, frames,
                       batches, clock, messageHistory, errorHistory,
                       maxHistorySize, outputCallback, delivered, journal>> ]_vars

C20_Witness ==
  /\ calls.n = 2 /\ calls.op = "matchesUrlPattern"
  /\ calls.args = << UrlAb, << "*", ".", "[", "a", "b", "]" >> >>
  /\ calls.returned /\ calls.value = FALSE

MatchAll == { <<>>, << "*" >>, << ".", "*" >> }
\* a location or a pattern without its protocol and www., in lower case
Normalized(s) == toLowerCase(stripProtocol(s))
WildcardDomain(pattern) == startsWith(Normalized(pattern), << "*", "." >>)

\* C21: for a pattern whose normalized form starts with "*." the matcher
\* returns true exactly when the rest of the normalized pattern is a
\* substring of the normalized location, and for the patterns "", "*" and
\* ".*" it returns true for every location.
C21_WildcardDomainIsSubstring ==
  calls.op = "matchesUrlPattern" =>
    LET url == calls.args[1]
        pattern == calls.args[2]
    IN  /\ pattern \in MatchAll => calls.value = TRUE
        /\ (pattern \notin MatchAll /\ WildcardDomain(pattern)) =>
             calls.value = includes(Normalized(url), slice(Normalized(pattern), 2))

\* (the same for the patterns without a regex metacharacter)
C21_PlainWildcardDomainIsSubstring ==
  calls.op = "matchesUrlPattern" =>
    LET url == calls.args[1]
        pattern == calls.args[2]
    IN  /\ pattern \in MatchAll => calls.value = TRUE
        /\ (pattern \notin MatchAll /\ WildcardDomain(pattern)
              /\ ~looksLikeRegExp(pattern)) =>
             calls.value = includes(Normalized(url), slice(Normalized(pattern), 2))

\* the rules in the order match-all, wildcard-domain, regular expression
\* (on the location as given), substring
WildcardBeforeRegExp(url, pattern) ==
  IF pattern \in MatchAll THEN TRUE
  ELSE IF WildcardDomain(pattern)
    THEN includes(Normalized(url), slice(Normalized(pattern), 2))
  ELSE IF looksLikeRegExp(pattern)
    THEN RegExp(pattern).ok /\ test(RegExp(pattern), url)
  ELSE includes(Normalized(url), Normalized(pattern))

\* C27: the matcher applies its rules in the order match-all patterns,
\* normalization, wildcard-domain rule, regex rule on the original location,
\* substring containment; a pattern whose normalized form starts with "*."
\* is decided by the wildcard-domain rule even when it contains a regex
\* metacharacter.
C27_WildcardRuleBeforeRegexRule ==
  calls.op = "matchesUrlPattern" =>
    calls.value = WildcardBeforeRegExp(calls.args[1], calls.args[2])

\* C22: every ExecutionResult carries a ResourceUsage of three non-negative
\* numbers, and the three are zero when resource monitoring is disabled or
\* the run failed before a monitor was started for it.
C22_UsageZeroWithoutMonitor ==
  \A r \in Started :
    Settled(r) =>
      LET usage == runs[r].result.resourceUsage
      IN  /\ usage.memoryUsage \in Nat
          /\ usage.executionTime \in Nat
          /\ usage.domModifications \in Nat
          /\ ~runs[r].monitored => usage = ZeroUsage

\* C23: warnings never change the outcome: a run whose evaluation completes
\* returns success=true with every validator warning of its code, and a
\* memory reading above the ceiling adds one warning to them and nothing
\* else: the run is not aborted and does not fail.
C23_WarningsKeepSuccess ==
  \A r \in Started :
    (Settled(r) /\ runs[r].inner = "fulfilled") =>
      LET result == runs[r].result
          found == validateCode(runs[r].code).warnings
          high == result.resourceUsage.memoryUsage > options.maxMemoryUsage
      IN  /\ result.success /\ result.error = NoError
          /\ ~runs[r].aborted
          /\ SubSeq(result.warnings, 1, Len(found)) = found
          /\ Len(result.warnings) = Len(found) + (IF high THEN 1 ELSE 0)

C23_Witness ==
  \E r \in Started :
    /\ Settled(r) /\ runs[r].code = CodeRisky
    /\ runs[r].result.success
    /\ runs[r].result.resourceUsage.memoryUsage > DEFAULT_MAX_MEMORY
    /\ Len(runs[r].result.warnings) = 3

\* C24: once a run with resource monitoring has settled, its
\* ResourceMonitor has been disposed: its observer was disconnected exactly
\* once and the monitor map holds no entry of that run.
C24_SettledRunDisposesMonitor ==
  \A r \in Started :
    (Settled(r) /\ runs[r].monitored) =>
      /\ runs[r].disconnects = 1
      /\ \A id \in ExecIds : resourceMonitors[id] # r

\* C25: console capture is installed once per context: after any number of
\* runs on a frame, each console call made by the code of a run appends
\* exactly one ConsoleMessage of that severity, carrying the snippet id of
\* that run.
C25_OneMessagePerConsoleCall ==
  \A r \in Started :
    runs[r].evalCalls = 1 =>
      runs[r].logged =
        [k \in 1..Len(runs[r].code.logs) |->
           ConsoleMessage(runs[r].code.logs[k], "hi", "", 0, runs[r].snippetId)]

\* the messages the ConsoleManager was given during the step
Emitted ==
  [k \in 1..(Len(journal'.added) - Len(journal.added)) |->
     journal'.added[Len(journal.added) + k].message]
Count(b) == IF b THEN 1 ELSE 0
TextsOf(messages, text) == {k \in 1..Len(messages) : messages[k].text = text}
Rank(message) ==
  CASE message.text = "error" -> 0
    [] message.text = "location" -> 1
    [] message.text = "stack" -> 2
    [] message.text = "suggestion" -> 3
    [] OTHER -> 4
\* one error message first, then the location, the stack trace, the
\* suggestions by ascending rule, the context; of the severities the code gives
InOrderOfLogDetailedError(messages, errorLog) ==
  /\ \A k \in 1..Len(messages) :
       /\ messages[k].snippetId = errorLog.snippetId
       /\ messages[k].type = IF Rank(messages[k]) <= 2 THEN "error" ELSE "info"
  /\ \A j, k \in 1..Len(messages) :
       j < k => /\ Rank(messages[j]) <= Rank(messages[k])
                /\ (Rank(messages[j]) = 3 /\ Rank(messages[k]) = 3)
                     => messages[j].rule < messages[k].rule
  /\ Cardinality(TextsOf(messages, "error")) = 1
  /\ Cardinality(TextsOf(messages, "location")) = Count(errorLog.hasLine)
  /\ {messages[k].rule : k \in TextsOf(messages, "suggestion")} = errorLog.error.rules
  /\ Cardinality(TextsOf(messages, "suggestion")) = Cardinality(errorLog.error.rules)
  /\ Cardinality(TextsOf(messages, "context")) = Count(errorLog.urlKnown)
LogsDetailedError ==
  consoleCalls'.n # consoleCalls.n /\ consoleCalls'.op = "logDetailedError"

\* C26 (as stated): logDetailedError appends one ErrorLog and emits the
\* error message, the line/column message if present, one message per
\* matching rule in table order and the location message if known, and
\* nothing else: 1 + [line/column] + rules + [location known] messages.
C26_DetailedErrorMessageCount ==
  [][ LogsDetailedError =>
        LET errorLog == consoleCalls'.arg
        IN  /\ errorHistory' = Append(errorHistory, errorLog)
            /\ InOrderOfLogDetailedError(Emitted, errorLog)
            /\ Len(Emitted) = 1 + Count(errorLog.hasLine)
                                + Cardinality(errorLog.error.rules)
                                + Count(errorLog.urlKnown) ]_vars

\* C26 (amended): logDetailedError appends one ErrorLog and emits, in this
\* order, the error message, the line/column message if present, an error
\* message with the stack trace if the log carries one, one informational
\* message per matching rule in table order and the location message if
\* known: 1 + [line/column] + [stack trace] + rules + [location known].
C26_DetailedErrorMessageCountWithStack ==
  [][ LogsDetailedError =>
        LET errorLog == consoleCalls'.arg
        IN  /\ errorHistory' = Append(errorHistory, errorLog)
            /\ InOrderOfLogDetailedError(Emitted, errorLog)
            /\ Cardinality(TextsOf(Emitted, "stack")) = Count(errorLog.hasStack)
            /\ Len(Emitted) = 1 + Count(errorLog.hasLine) + Count(errorLog.hasStack)
                                + Cardinality(errorLog.error.rules)
                                + Count(errorLog.urlKnown) ]_vars
C26_Witness ==
  /\ consoleCalls.n = 1 /\ consoleCalls.op = "logDetailedError"
  /\ consoleCalls.arg.error = TimeoutError /\ consoleCalls.arg.urlKnown
  /\ Len(errorHistory) = 1
  /\ Len(journal.added) = 5
  /\ journal.added[3].message.text = "stack"
  /\ journal.added[4].message.rule = 12

\* C28: every execution that has started and not settled (and was not
\* cancelled) has its own controller in the active-execution map under its
\* execution id, whatever other executions were started or settled since.
C28_InFlightRunKeepsItsController ==
  \A r \in Started :
    (InFlight(r) /\ ~runs[r].aborted) => activeExecutions[runs[r].id] = r

\* C29: abortExecution(id) returns true exactly when an execution with that
\* id has started and not settled; otherwise it returns false and changes
\* nothing.
C29_AbortReturnsTrueOnlyInFlight ==
  [][ \A id \in SpecAbortIds :
        AbortExecution(id) =>
          LET inFlight == \E r \in Started : runs[r].id = id /\ InFlight(r)
          IN  /\ calls'.returned = inFlight
              /\ ~inFlight => UNCHANGED <<runs, activeExecutions, resourceMonitors>> ]_vars

\* C30: executeImmediate on a disabled snippet returns success=false with
\* the error 'Snippet is disabled' and zeroed usage and does nothing else
\* (no evaluation, no entry in the maps, no message, no error log); on an
\* enabled snippet it is injectScript(snippet.code, frame, snippet.id).
C30_DisabledSnippetIsNotRun ==
  [][ (calls'.n # calls.n /\ calls'.op = "executeImmediate") =>
        LET snippet == calls'.snippet
        IN  IF ~snippet.enabled
              THEN /\ calls'.run = 0
                   /\ ~calls'.result.success
                   /\ calls'.result.error = DisabledError
                   /\ calls'.result.resourceUsage = ZeroUsage
                   /\ UNCHANGED <<runs, activeExecutions, resourceMonitors, frames>>
                   /\ UNCHANGED <<messageHistory, errorHistory, delivered, journal>>
              ELSE /\ calls'.run = Len(runs) + 1
                   /\ \E outcome \in SpecOutcomes :
                        StartRun(snippet.code, calls'.frame, snippet.id, 0, outcome, 0) ]_vars
C30_Witness ==
  /\ calls.n = 2 /\ calls.op = "executeImmediate"
  /\ ~calls.snippet.enabled /\ calls.result = DisabledResult
  /\ Len(runs) = 1 /\ runs[1].evalCalls = 1

====
